---- MODULE Spec2Model ----
(***************************************************************************)
(* SafeSpace ("Friday"): the turn-dispatch protocol.                       *)
(*                                                                         *)
(*   SpecParse     parse_response over the updates the agent graph yields  *)
(*                 (backend/ai_agent.py and app.py hold the same function) *)
(*   SpecParseAny  parse_response over any stream, malformed events too    *)
(*   SpecTools     call_emergency_services and ask_mental_health_specialist*)
(*                 in both implementations, under every configuration      *)
(*   SpecTurn      the two entry points: app.py's script and               *)
(*                 backend/main.py's handlers                              *)
(*   SpecFrontend  frontend.py, the Streamlit client, in front of the      *)
(*                 backend                                                 *)
(*   SpecTTS       frontend.py's handle_tts_generation_and_play, pass by   *)
(*                 pass                                                    *)
(*                                                                         *)
(* Text that is concatenated or stripped is a sequence of one-character    *)
(* strings; a tool's message is the sequence of its words.                 *)
(***************************************************************************)
EXTENDS Integers, Sequences, FiniteSets, TLC

VARIABLES
    consumed,          \* the events the for loop of parse_response has taken so far
    tool_called_name,  \* parse_response's local
    final_response,    \* parse_response's local (before the final strip)
    pstate,            \* "running" | "returned" | "raised"
    ret,               \* the tuple parse_response returned
    env,               \* the telephony and model configuration the process read at import
    outbox,            \* the call-creation requests sent to the telephony provider
    llm_calls,         \* the calls made to the secondary model
    last,              \* the last tool invocation: its arguments and what came back
    invocations,       \* tool invocations so far
    SESSIONS,          \* backend/main.py's session store
    uuids,             \* session identifiers handed out so far
    session_state,     \* app.py's st.session_state
    turn,              \* the last turn: who handled it and what came of it
    turns,             \* turns so far
    registered,        \* history: the name and phone each registration was given
    frontend,          \* frontend.py's st.session_state
    tts,               \* handle_tts_generation_and_play: its loop and what it showed
    plays              \* calls of handle_tts_generation_and_play so far

pvars == <<consumed, tool_called_name, final_response, pstate, ret>>
tvars == <<outbox, llm_calls, last, invocations>>
svars == <<SESSIONS, uuids, session_state, turn, turns, registered>>
fvars == <<frontend, tts, plays>>
vars == <<pvars, env, tvars, svars, fvars>>

\* Most events one stream yields.
MaxEvents == 3
\* Most messages one stream carries, over all its events.
MaxMsgs == 3
\* Most tool invocations in one run.
MaxInvocations == 2
\* Most sessions started in one run.
MaxSessions == 2
\* Most turns in one run.
MaxTurns == 2
\* Most voice responses played in one run.
MaxPlays == 2

----------------------------------------------------------------------------
(* Text *)

Whitespace == {" ", "\t", "\n"}

\* str.strip(): leading whitespace removed.
RECURSIVE LStrip(_)
LStrip(s) ==
    IF s # <<>> /\ Head(s) \in Whitespace THEN LStrip(Tail(s)) ELSE s

\* str.strip(): trailing whitespace removed.
RECURSIVE RStrip(_)
RStrip(s) ==
    IF s # <<>> /\ s[Len(s)] \in Whitespace
    THEN RStrip(SubSeq(s, 1, Len(s) - 1))
    ELSE s

\* str.strip()
Strip(s) == RStrip(LStrip(s))

----------------------------------------------------------------------------
(* Messages and events: the values a stream can yield *)

ASK == "ask_mental_health_specialist"
CALL == "call_emergency_services"

\* tool_called_name = "None"
NoTool == "None"

\* msg.content that is a str
Str(s) == [isStr |-> TRUE, s |-> s]
\* msg.content that is a list of content blocks
Blocks == [isStr |-> FALSE, s |-> <<>>]

\* One entry of msg.tool_calls; name "" stands for an entry whose 'name' is
\* missing or empty (.get('name') is falsy either way).
ToolCall(n) == [name |-> n]

AIMessage(calls, content) ==
    [cls |-> "AIMessage", tool_calls |-> calls, content |-> content]
\* A ToolMessage has no tool_calls attribute.
ToolMessage(content) ==
    [cls |-> "ToolMessage", tool_calls |-> <<>>, content |-> content]
\* A raw dictionary in a messages list: not a BaseMessage, whatever it holds.
RawDict(calls, content) ==
    [cls |-> "dict", tool_calls |-> calls, content |-> content]

\* What the agent node puts into its updates.
AIMessages ==
    { AIMessage(<<ToolCall(ASK)>>, Str(<<>>)),
      AIMessage(<<ToolCall(CALL)>>, Str(<<>>)),
      AIMessage(<<>>, Str(<<" ", "a", " ">>)),
      AIMessage(<<ToolCall(""), ToolCall(ASK)>>, Blocks) }

\* What the tool node puts into its updates: a tool's returned text.
ToolMessages == { ToolMessage(Str(<<"b", " ">>)) }

Messages == AIMessages \cup ToolMessages

\* Items that are no message objects.
OddItems == { RawDict(<<ToolCall(CALL)>>, Str(<<"a">>)) }

\* The value under one key of an update.
Absent == [t |-> "absent", iterable |-> FALSE, items |-> <<>>]
\* A value that is not a dict (None).
NonDict == [t |-> "nondict", iterable |-> FALSE, items |-> <<>>]
\* {'messages': ms}
WithMessages(ms) == [t |-> "messages", iterable |-> TRUE, items |-> ms]
\* {'messages': None}
MessagesNone == [t |-> "messages", iterable |-> FALSE, items |-> <<>>]

Update(root, agent, tools) ==
    [shape |-> "dict", root |-> root, agent |-> agent, tools |-> tools]
\* {'agent': {'messages': ms}}: the agent node's update
AgentUpdate(ms) == Update(Absent, WithMessages(ms), Absent)
\* {'__root__': {'messages': ms}}
RootUpdate(ms) == Update(WithMessages(ms), Absent, Absent)
\* {'tools': {'messages': ms}}: the tool node's update
ToolsUpdate(ms) == Update(Absent, Absent, WithMessages(ms))
\* None in place of an update: not a container at all
NoneEvent == [shape |-> "none", root |-> Absent, agent |-> Absent, tools |-> Absent]
\* [] in place of an update: a container, not a mapping
ListEvent == [shape |-> "list", root |-> Absent, agent |-> Absent, tools |-> Absent]

\* Updates of unexpected shape.
OddEvents ==
    { NoneEvent, ListEvent,
      Update(NonDict, Absent, Absent),
      Update(Absent, MessagesNone, Absent) }

MsgLists(items, n) == UNION { [1..k -> items] : k \in 0..n }

\* The updates graph.stream(inputs, stream_mode="updates") can yield next when
\* the stream may still carry n messages: the agent node's, the tool node's,
\* and a root-level update of the whole message state.
Events(n) ==
    { AgentUpdate(ms) : ms \in MsgLists(AIMessages, n) } \cup
    { ToolsUpdate(ms) : ms \in MsgLists(ToolMessages, n) \ {<<>>} } \cup
    { RootUpdate(ms) : ms \in MsgLists(Messages, n) \ {<<>>} }

\* The same, and the malformed ones: an update of unexpected shape, or a
\* messages list that holds something that is no message.
AnyEvents(n) ==
    OddEvents \cup
    { AgentUpdate(ms) : ms \in MsgLists(AIMessages \cup OddItems, n) } \cup
    { ToolsUpdate(ms) : ms \in MsgLists(ToolMessages, n) \ {<<>>} } \cup
    { RootUpdate(ms) : ms \in MsgLists(Messages \cup OddItems, n) \ {<<>>} }

----------------------------------------------------------------------------
(* The tool layer. A message is the sequence of its words; an interpolated
   value (the phone number, the call SID, the caught error) is one word. *)

\* What a configuration value is when it is set.
SID == "AC0"
TOKEN == "tok"
FROM == "+15005550006"

\* url= of calls.create
CallbackUrl == "http://demo.twilio.com/docs/voice.xml"

\* The configurations a process can have read: each value set or missing
\* (""), the twilio package importable or not (app.py's TwilioClient = None),
\* the Groq key set or not (unset: app.py's main_llm and therapist_llm are
\* None).
Envs ==
    [ TWILIO_ACCOUNT_SID : {"", SID},
      TWILIO_AUTH_TOKEN : {"", TOKEN},
      TWILIO_FROM_NUMBER : {"", FROM},
      TwilioClient : BOOLEAN,
      GROQ_API_KEY : BOOLEAN ]

\* The phone arguments the agent passes.
Phones == {"+15550001111", " +1 555 ", ""}

\* What the telephony provider answers to a call-creation request.
Created(sid) == [ok |-> TRUE, sid |-> sid, error |-> ""]
Refused(e) == [ok |-> FALSE, sid |-> "", error |-> e]
ProviderAnswers == { Created("CA1"), Refused("HTTP 401"), Refused("timed out") }

\* app.py, telephony not configured
ConfigMissingMessage ==
    << "Emergency", "call", "could", "not", "be", "initiated", "because",
       "telephony", "is", "not", "configured.", "Please", "dial", "your",
       "local", "emergency", "number", "immediately." >>

\* app.py, the call was created
AppSuccessMessage(phone, sid) ==
    << "A", "critical", "situation", "alert", "has", "been", "triggered.",
       "The", "emergency", "helpline", "is", "now", "calling", phone, ".",
       "Call", "SID:", sid, ".", "Please", "stay", "safe", "and", "on",
       "the", "line." >>

\* A deliberately wrong variant: the failure message without the caught error.
AppFailureMessageNoError(e) ==
    << "Emergency", "call", "attempt", "failed.", "Please", "contact", "your",
       "local", "emergency", "services", "immediately." >>

\* app.py, calls.create raised e
AppFailureMessage(e) ==
    << "Emergency", "call", "attempt", "failed", "(error:", e, ").",
       "Please", "contact", "your", "local", "emergency", "services",
       "immediately." >>

\* backend/tools.py, the call was created
BackendSuccessMessage(phone, sid) ==
    << "A", "critical", "situation", "alert", "has", "been", "successfully",
       "triggered.", "The", "emergency", "helpline", "is", "now", "calling",
       "the", "number:", phone, ".", "The", "call", "SID", "is", sid, ".",
       "Please", "wait", "a", "moment." >>

\* backend/tools.py, Client(...) or calls.create raised e
BackendFailureMessage(e) ==
    << "Emergency", "call", "attempt", "failed.", "Error:", e, ".",
       "Please", "contact", "a", "local", "emergency", "service",
       "immediately", "by", "dialing", "911", "(or", "your", "local",
       "equivalent)." >>

\* The request calls.create(to=phone, from_=TWILIO_FROM_NUMBER, url=...) sends.
CallRequest(phone, e) ==
    [to |-> phone, from_ |-> e.TWILIO_FROM_NUMBER, url |-> CallbackUrl]

\* What one invocation of a tool did: the text it returned, whether an
\* exception left it, and the requests it sent.
Did(result, issued, asked) ==
    [result |-> result, raised |-> FALSE, issued |-> issued, asked |-> asked]

\* app.py's precheck
Configured(e) ==
    /\ e.TWILIO_ACCOUNT_SID # ""
    /\ e.TWILIO_AUTH_TOKEN # ""
    /\ e.TWILIO_FROM_NUMBER # ""
    /\ e.TwilioClient

\* app.py: call_emergency_services(phone), the provider answering `answer`.
call_emergency_services(e, phone, answer) ==
    IF ~Configured(e) THEN Did(ConfigMissingMessage, <<>>, 0)
    ELSE IF answer.ok
    THEN Did(AppSuccessMessage(phone, answer.sid), <<CallRequest(phone, e)>>, 0)
    ELSE Did(AppFailureMessage(answer.error), <<CallRequest(phone, e)>>, 0)

\* The error of twilio's Client(None, None).
NoCredentials == "Credentials are required to create a TwilioClient"

\* backend/tools.py: call_emergency_contact(phone), which the backend's
\* call_emergency_services returns. There is no precheck: Client(...) raises
\* inside the try when the SID or the token is missing, and with both set the
\* request goes out, whatever TWILIO_FROM_NUMBER is.
call_emergency_contact(e, phone, answer) ==
    IF e.TWILIO_ACCOUNT_SID = "" \/ e.TWILIO_AUTH_TOKEN = ""
    THEN Did(BackendFailureMessage(NoCredentials), <<>>, 0)
    ELSE IF answer.ok
    THEN Did(BackendSuccessMessage(phone, answer.sid), <<CallRequest(phone, e)>>, 0)
    ELSE Did(BackendFailureMessage(answer.error), <<CallRequest(phone, e)>>, 0)

\* The prompts the agent passes to the specialist.
Prompts == {"I feel low", ""}

\* What the secondary model answers: text, or the call raises (network, auth,
\* a response the client cannot read).
Replied(text) == [ok |-> TRUE, content |-> text]
Failed == [ok |-> FALSE, content |-> <<>>]
ModelAnswers == { Replied(<<" ", "I", "hear", "you.", " ">>), Replied(<<>>), Failed }

\* The fixed fallback of both implementations.
Fallback ==
    << "I'm", "having", "technical", "difficulties", "right", "now,", "but",
       "I", "want", "you", "to", "know", "your", "feelings", "matter.",
       "Please", "try", "again", "later." >>

\* app.py, therapist_llm is None
NotConfiguredMessage ==
    << "The", "assistant", "is", "not", "fully", "configured", "(missing",
       "GROQ_API_KEY).", "Please", "try", "again", "after", "the", "server",
       "is", "configured." >>

\* A deliberately wrong variant: the call is made again when it fails, and the failure is then
\* let through.
AskRetries(answer) ==
    IF answer.ok THEN Did(Strip(answer.content), <<>>, 1)
    ELSE [result |-> <<>>, raised |-> TRUE, issued |-> <<>>, asked |-> 2]

\* The try block of both implementations: one call, its content stripped, or
\* the fallback.
AskOnce(answer) ==
    IF answer.ok THEN Did(Strip(answer.content), <<>>, 1)
    ELSE Did(Fallback, <<>>, 1)

\* app.py: ask_mental_health_specialist(prompt)
ask_mental_health_specialist(e, prompt, answer) ==
    IF ~e.GROQ_API_KEY THEN Did(NotConfiguredMessage, <<>>, 0)
    ELSE AskOnce(answer)

\* backend/tools.py: query_medgemma(prompt), which the backend's
\* ask_mental_health_specialist returns.
query_medgemma(e, prompt, answer) == AskOnce(answer)

\* A tool ran: what the world and the caller see of it.
Invoked(tool, impl, arg, answer, did) ==
    /\ invocations' = invocations + 1
    /\ outbox' = outbox \o did.issued
    /\ llm_calls' = llm_calls + did.asked
    /\ last' = [tool |-> tool, impl |-> impl, arg |-> arg, answer |-> answer,
                result |-> did.result, raised |-> did.raised,
                issued |-> did.issued, asked |-> did.asked]
    /\ UNCHANGED <<env, pvars, svars, fvars>>

\* The answers the provider can give to the request the configuration allows:
\* without a caller number no call is created.
AnswersFor(e) ==
    IF e.TWILIO_FROM_NUMBER = ""
    THEN { a \in ProviderAnswers : ~a.ok }
    ELSE ProviderAnswers

\* backend/tools.py imports twilio at its head, unguarded: the backend's tools
\* exist only where the package is installed.
BackendToolsLoaded(e) == e.TwilioClient

AppCallEmergency ==
    /\ invocations < MaxInvocations
    /\ \E phone \in Phones, answer \in AnswersFor(env) :
           Invoked(CALL, "app", phone, [ok |-> answer.ok, text |-> answer.error],
                   call_emergency_services(env, phone, answer))

BackendCallEmergency ==
    /\ BackendToolsLoaded(env)
    /\ invocations < MaxInvocations
    /\ \E phone \in Phones, answer \in AnswersFor(env) :
           Invoked(CALL, "backend", phone, [ok |-> answer.ok, text |-> answer.error],
                   call_emergency_contact(env, phone, answer))

AppAsk ==
    /\ invocations < MaxInvocations
    /\ \E prompt \in Prompts, answer \in ModelAnswers :
           Invoked(ASK, "app", prompt, [ok |-> answer.ok, text |-> ""],
                   ask_mental_health_specialist(env, prompt, answer))

BackendAsk ==
    /\ BackendToolsLoaded(env)
    /\ invocations < MaxInvocations
    /\ \E prompt \in Prompts, answer \in ModelAnswers :
           Invoked(ASK, "backend", prompt, [ok |-> answer.ok, text |-> ""],
                   query_medgemma(env, prompt, answer))

NoInvocation ==
    [tool |-> NoTool, impl |-> "", arg |-> "", answer |-> [ok |-> TRUE, text |-> ""],
     result |-> <<>>, raised |-> FALSE, issued |-> <<>>, asked |-> 0]

\* Nothing is configured.
NoEnv ==
    [TWILIO_ACCOUNT_SID |-> "", TWILIO_AUTH_TOKEN |-> "",
     TWILIO_FROM_NUMBER |-> "", TwilioClient |-> FALSE, GROQ_API_KEY |-> FALSE]

\* No tool runs.
ToolsIdle ==
    /\ outbox = <<>>
    /\ llm_calls = 0
    /\ last = NoInvocation
    /\ invocations = 0

----------------------------------------------------------------------------
(* parse_response *)

\* A deliberately wrong variant: only the assistant's own messages count as messages.
IsAIMessageOnly(msg) == msg.cls = "AIMessage"

\* isinstance(msg, BaseMessage)
IsBaseMessage(msg) == msg.cls \in {"AIMessage", "ToolMessage"}

\* hasattr(msg, 'tool_calls') and msg.tool_calls
HasToolCalls(msg) == msg.cls = "AIMessage" /\ msg.tool_calls # <<>>

\* The branch that fills messages_to_process. raised: the TypeError of
\* `'__root__' in step` on a step that is no container, or of extend(None).
ExtractMessages(step) ==
    IF step.shape = "none" THEN [raised |-> TRUE, msgs |-> <<>>]
    ELSE IF step.shape = "list" THEN [raised |-> FALSE, msgs |-> <<>>]
    ELSE IF step.root.t = "messages"
         THEN [raised |-> ~step.root.iterable, msgs |-> step.root.items]
    ELSE IF step.agent.t = "messages"
         THEN [raised |-> ~step.agent.iterable, msgs |-> step.agent.items]
    ELSE [raised |-> FALSE, msgs |-> <<>>]

\* A deliberately wrong variant: the name is kept once set (tool_called == NONE guards the write).
ToolAfterFirstWins(tool, msg) ==
    IF HasToolCalls(msg) /\ msg.tool_calls[1].name # "" /\ tool = "None"
    THEN msg.tool_calls[1].name
    ELSE tool

\* A deliberately wrong variant: the name of the first entry is taken without the .get('name') test.
ToolAfterUnchecked(tool, msg) ==
    IF HasToolCalls(msg) THEN msg.tool_calls[1].name ELSE tool

\* The tool name after one message.
ToolAfter(tool, msg) ==
    IF HasToolCalls(msg) /\ msg.tool_calls[1].name # ""
    THEN msg.tool_calls[1].name
    ELSE tool

\* A deliberately wrong variant: each fragment is stripped as it is appended.
TextAfterStripsEach(text, msg) ==
    IF msg.content.isStr THEN text \o Strip(msg.content.s) ELSE text

\* The accumulated text after one message.
TextAfter(text, msg) ==
    IF msg.content.isStr THEN text \o msg.content.s ELSE text

\* The body of `for msg in messages_to_process`.
ProcessMessage(acc, msg) ==
    IF IsBaseMessage(msg)
    THEN [tool |-> ToolAfter(acc.tool, msg), text |-> TextAfter(acc.text, msg)]
    ELSE acc

RECURSIVE ProcessMessages(_, _)
ProcessMessages(acc, msgs) ==
    IF msgs = <<>> THEN acc
    ELSE ProcessMessages(ProcessMessage(acc, Head(msgs)), Tail(msgs))

\* Messages an event holds, under any key.
Carried(e) == Len(e.root.items) + Len(e.agent.items) + Len(e.tools.items)

RECURSIVE CarriedAll(_)
CarriedAll(es) == IF es = <<>> THEN 0 ELSE Carried(Head(es)) + CarriedAll(Tail(es))

\* One iteration of `for step in stream`, the stream yielding step.
Iterate(step) ==
    LET got == ExtractMessages(step)
        acc == ProcessMessages(
                   [tool |-> tool_called_name, text |-> final_response],
                   got.msgs)
    IN /\ consumed' = Append(consumed, step)
       /\ IF got.raised
          THEN /\ pstate' = "raised"
               /\ UNCHANGED <<tool_called_name, final_response>>
          ELSE /\ pstate' = "running"
               /\ tool_called_name' = acc.tool
               /\ final_response' = acc.text
       /\ UNCHANGED <<ret, env, tvars, svars, fvars>>

\* The agent graph yields its next update.
StreamYield ==
    /\ pstate = "running"
    /\ Len(consumed) < MaxEvents
    /\ \E step \in Events(MaxMsgs - CarriedAll(consumed)) : Iterate(step)

\* The stream yields anything at all.
StreamYieldAny ==
    /\ pstate = "running"
    /\ Len(consumed) < MaxEvents
    /\ \E step \in AnyEvents(MaxMsgs - CarriedAll(consumed)) : Iterate(step)

\* The stream is exhausted: return tool_called_name, final_response.strip()
StreamEnd ==
    /\ pstate = "running"
    /\ pstate' = "returned"
    /\ ret' = [tool |-> tool_called_name, text |-> Strip(final_response)]
    /\ UNCHANGED <<consumed, tool_called_name, final_response, env, tvars, svars, fvars>>

\* parse_response(stream) as a value: the result, or raised.
RECURSIVE ParseFrom(_, _)
ParseFrom(acc, stream) ==
    IF stream = <<>>
    THEN [raised |-> FALSE, tool |-> acc.tool, text |-> Strip(acc.text)]
    ELSE LET got == ExtractMessages(Head(stream))
         IN IF got.raised
            THEN [raised |-> TRUE, tool |-> acc.tool, text |-> <<>>]
            ELSE ParseFrom(ProcessMessages(acc, got.msgs), Tail(stream))

parse_response(stream) == ParseFrom([tool |-> NoTool, text |-> <<>>], stream)

----------------------------------------------------------------------------
(* The two entry points: the Streamlit script app.py, and the FastAPI
   handlers of backend/main.py *)

\* What the user types into a name or phone field, and registers with.
NameInputs == { <<>>, <<" ", "A", "d", "a">> }
PhoneInputs == { <<>>, <<"+", "1", "5", " ">> }
UserInputs == { <<"h", "i">> }

\* "there"
There == <<"t", "h", "e", "r", "e">>

\* The streams graph.stream(inputs, stream_mode="updates") yields for a turn:
\* a direct answer, and a tool requested, run and answered on.
SampleStreams ==
    { << AgentUpdate(<< AIMessage(<<>>, Str(<<" ", "a", " ">>)) >>) >>,
      << AgentUpdate(<< AIMessage(<<ToolCall(ASK)>>, Str(<<>>)) >>),
         ToolsUpdate(<< ToolMessage(Str(<<"b", " ">>)) >>),
         AgentUpdate(<< AIMessage(<<>>, Str(<<" ", "a", " ">>)) >>) >>,
      << AgentUpdate(<< AIMessage(<<ToolCall(CALL)>>, Str(<<>>)) >>),
         ToolsUpdate(<< ToolMessage(Str(<<"b", " ">>)) >>) >> }

\* The second system message of a turn: name and phone, and the phone once
\* more as the number to pass to call_emergency_services.
session_context(name, phone) ==
    [user_name |-> name, user_phone |-> phone, pass_phone |-> phone]

NoContext == session_context(<<>>, <<>>)

\* The body of POST /ask; response_mode "" is the field left out (None).
Query(message, session_id, input_mode, response_mode) ==
    [message |-> message, session_id |-> session_id,
     input_mode |-> input_mode, response_mode |-> response_mode]

NoQuery == Query(<<>>, 0, "", "")

InputModes == {"chat", "voice"}
ResponseModes == {"", "chat", "voice"}

\* What a turn came to.
Turn(entry, query, error, streamed, parsed, context, tool, response, mode) ==
    [entry |-> entry, query |-> query, session_id |-> query.session_id,
     error |-> error, streamed |-> streamed, parsed |-> parsed,
     context |-> context, tool_called |-> tool, response |-> response,
     response_mode |-> mode]

NoTurn == Turn("", NoQuery, "", FALSE, FALSE, NoContext, NoTool, <<>>, "")

\* app.py: main_llm, and with it graph, is None without the key.
graph_is_None(e) == ~e.GROQ_API_KEY

\* backend/ai_agent.py builds ChatGroq and the graph at import, unguarded:
\* without the key the constructor raises, `from ai_agent import ...` fails
\* and main.py serves nothing.
BackendServes(e) == e.GROQ_API_KEY

\* s or d
Or(s, d) == IF s = <<>> THEN d ELSE s

\* History: registration id was given this name and phone.
Recorded(reg, id, entry, name, phone) ==
    [i \in DOMAIN reg \cup {id} |->
        IF i = id THEN [entry |-> entry, name |-> name, phone |-> phone]
        ELSE reg[i]]

\* A deliberately wrong variant: the table is rebound to the new entry alone.
StoredAlone(sessions, id, entry) == [i \in {id} |-> entry]

\* SESSIONS[session_id] = {...}
Stored(sessions, id, entry) ==
    [i \in DOMAIN sessions \cup {id} |-> IF i = id THEN entry ELSE sessions[i]]

\* A deliberately wrong variant: an unknown session resolves to empty strings.
LookupNoPlaceholder(sessions, session_id) ==
    IF session_id \in DOMAIN sessions THEN sessions[session_id]
    ELSE [name |-> <<>>, phone |-> <<>>]

\* session = SESSIONS.get(...); name and phone of it, or "there" and "".
Lookup(sessions, session_id) ==
    IF session_id \in DOMAIN sessions THEN sessions[session_id]
    ELSE [name |-> There, phone |-> <<>>]

\* A deliberately wrong variant: the response mode always mirrors the input mode.
chosen_mode_mirrors(query) == query.input_mode

\* query.response_mode or query.input_mode
chosen_mode(query) ==
    IF query.response_mode # "" THEN query.response_mode ELSE query.input_mode

\* What ask_question returns for a query, the graph streaming `stream`.
Answer(sessions, query, stream) ==
    LET session == Lookup(sessions, query.session_id)
        parsed == parse_response(stream)
    IN Turn("backend", query, "", TRUE, TRUE,
            session_context(session.name, session.phone),
            parsed.tool, parsed.text, chosen_mode(query))

\* app.py: "Start session" / "Restart"
AppStartSession ==
    /\ uuids < MaxSessions
    /\ \E name \in NameInputs, phone \in PhoneInputs :
         /\ session_state' =
               [session_id |-> uuids + 1,
                name |-> Or(Strip(name), There),
                phone |-> Strip(phone),
                messages |-> << [role |-> "assistant", kind |-> "greeting",
                                 content |-> Or(Strip(name), There)] >>]
         /\ registered' = Recorded(registered, uuids + 1, "app", name, phone)
    /\ uuids' = uuids + 1
    /\ UNCHANGED <<pvars, env, tvars, SESSIONS, turn, turns, fvars>>

\* app.py: the chat input, enabled once a session has started
AppChatTurn ==
    /\ turns < MaxTurns
    /\ session_state.session_id # 0
    /\ \E user_input \in UserInputs, stream \in SampleStreams :
         LET name == Or(session_state.name, There)
             phone == Or(session_state.phone, <<>>)
             context == session_context(name, phone)
             parsed == parse_response(stream)
             final == IF graph_is_None(env) THEN <<>> ELSE parsed.text
             query == Query(user_input, session_state.session_id, "chat", "")
             said == << [role |-> "user", kind |-> "text", content |-> user_input],
                        [role |-> "assistant", kind |-> "text", content |-> Or(final, <<>>)] >>
         IN /\ session_state' =
                  [session_state EXCEPT !.messages = session_state.messages \o said]
            /\ turn' =
                  IF graph_is_None(env)
                  THEN Turn("app", query, "Server not configured",
                            FALSE, FALSE, context, NoTool, <<>>, "chat")
                  ELSE Turn("app", query, "",
                            TRUE, TRUE, context, parsed.tool, final, "chat")
    /\ turns' = turns + 1
    /\ UNCHANGED <<pvars, env, tvars, SESSIONS, uuids, registered, fvars>>

\* backend/main.py: POST /start_session
start_session ==
    /\ BackendServes(env)
    /\ uuids < MaxSessions
    /\ \E name \in NameInputs, phone \in PhoneInputs :
         /\ SESSIONS' = Stored(SESSIONS, uuids + 1, [name |-> name, phone |-> phone])
         /\ registered' = Recorded(registered, uuids + 1, "backend", name, phone)
    /\ uuids' = uuids + 1
    /\ UNCHANGED <<pvars, env, tvars, session_state, turn, turns, fvars>>

\* backend/main.py: POST /ask
ask_question ==
    /\ BackendServes(env)
    /\ turns < MaxTurns
    /\ \E message \in UserInputs, session_id \in 0..MaxSessions,
          input_mode \in InputModes, response_mode \in ResponseModes,
          stream \in SampleStreams :
         turn' = Answer(SESSIONS, Query(message, session_id, input_mode, response_mode),
                        stream)
    /\ turns' = turns + 1
    /\ UNCHANGED <<pvars, env, tvars, SESSIONS, uuids, session_state, registered, fvars>>

\* A request to a backend that never came up: nothing answers it.
BackendUnreachable ==
    /\ ~BackendServes(env)
    /\ turns < MaxTurns
    /\ \E session_id \in 0..MaxSessions :
         turn' = Turn("backend", Query(<<>>, session_id, "chat", ""),
                      "connection refused", FALSE, FALSE,
                      NoContext, NoTool, <<>>, "")
    /\ turns' = turns + 1
    /\ UNCHANGED <<pvars, env, tvars, SESSIONS, uuids, session_state, registered, fvars>>

\* No session and no turn yet.
ShimIdle ==
    /\ SESSIONS = << >>
    /\ uuids = 0
    /\ session_state = [session_id |-> 0, name |-> <<>>, phone |-> <<>>, messages |-> <<>>]
    /\ turn = NoTurn
    /\ turns = 0
    /\ registered = << >>

----------------------------------------------------------------------------
(* frontend.py: the Streamlit client of the backend. *)

\* max_retries = 3
max_retries == 3

\* What one TTS request can come to:
\*   "audio"      200 with inline audio/L16 data
\*   "no_audio"   200 whose first part carries no audio
\*   "timeout"    requests.post raises (connection error, timeout)
\*   "http_error" raise_for_status raises (4xx, 5xx)
\*   "bad_shape"  the response cannot be picked apart (e.g. IndexError on an
\*                empty candidates list)
RequestExceptions == {"timeout", "http_error"}
TTSOutcomes == {"audio", "no_audio", "bad_shape"} \cup RequestExceptions

SpokenTexts == { <<"a">>, <<"b", " ">> }

\* handle_tts_generation_and_play before its loop: st.info shown, i = 0.
TTSStarted(text) ==
    [state |-> "running", text |-> text, i |-> 0, requests |-> 0,
     answers |-> <<>>, slept |-> <<>>, shown |-> <<"info">>, result |-> FALSE]

TTSIdle ==
    [state |-> "idle", text |-> <<>>, i |-> 0, requests |-> 0,
     answers |-> <<>>, slept |-> <<>>, shown |-> <<>>, result |-> FALSE]

\* The function returns: what it showed last, and its value.
TTSReturn(t, shown, result) ==
    [t EXCEPT !.state = "returned", !.shown = @ \o shown, !.result = result]

\* A deliberately wrong variant: a failed attempt is always slept on and
\* followed by another, the error coming after max_retries retries.
TTSIterateRetriesAfterLast(t, outcome) ==
    LET sent == [t EXCEPT !.requests = @ + 1, !.answers = Append(@, outcome)]
    IN  CASE outcome = "audio" -> TTSReturn(sent, <<"audio", "success">>, TRUE)
          [] outcome = "no_audio" -> TTSReturn(sent, <<"error">>, FALSE)
          [] outcome \in RequestExceptions ->
                IF t.i < max_retries
                THEN [sent EXCEPT !.shown = Append(@, "warning"),
                                  !.slept = Append(@, 2 ^ t.i),
                                  !.i = t.i + 1]
                ELSE TTSReturn(sent, <<"error">>, FALSE)
          [] OTHER -> TTSReturn(sent, <<"error">>, FALSE)

\* One pass of `for i in range(max_retries)`: the request and what follows it.
\* (The `return False` after the loop is never reached: the last pass returns.)
TTSIterate(t, outcome) ==
    LET sent == [t EXCEPT !.requests = @ + 1, !.answers = Append(@, outcome)]
    IN  CASE outcome = "audio" -> TTSReturn(sent, <<"audio", "success">>, TRUE)
          [] outcome = "no_audio" -> TTSReturn(sent, <<"error">>, FALSE)
          [] outcome \in RequestExceptions ->
                IF t.i < max_retries - 1
                THEN [sent EXCEPT !.shown = Append(@, "warning"),
                                  !.slept = Append(@, 2 ^ t.i),
                                  !.i = t.i + 1]
                ELSE TTSReturn(sent, <<"error">>, FALSE)
          [] OTHER -> TTSReturn(sent, <<"error">>, FALSE)

\* The loop run to its return, the provider answering `answers` in turn.
RECURSIVE TTSLoop(_, _)
TTSLoop(t, answers) ==
    IF t.state # "running" \/ answers = <<>> THEN t
    ELSE TTSLoop(TTSIterate(t, Head(answers)), Tail(answers))

\* What the provider answers to up to max_retries requests in a row.
TTSAnswerRuns ==
    { <<"audio">>, <<"no_audio">>, <<"bad_shape">>,
      <<"timeout", "audio">>, <<"http_error", "timeout", "audio">>,
      <<"timeout", "timeout", "http_error">> }

handle_tts_generation_and_play(text, answers) == TTSLoop(TTSStarted(text), answers)

\* handle_tts_generation_and_play is called
TTSStart ==
    /\ plays < MaxPlays
    /\ tts.state # "running"
    /\ \E text \in SpokenTexts : tts' = TTSStarted(text)
    /\ plays' = plays + 1
    /\ UNCHANGED <<pvars, env, tvars, svars, frontend>>

\* one pass of its loop
TTSAttempt ==
    /\ tts.state = "running"
    /\ \E outcome \in TTSOutcomes : tts' = TTSIterate(tts, outcome)
    /\ UNCHANGED <<pvars, env, tvars, svars, frontend, plays>>

\* bool(tool_called): a non-empty string is true.
Truthy(tool_called) == tool_called # ""

\* frontend.py: the registration form, submitted with a name and a phone
FrontendRegister ==
    /\ frontend.session_id = 0
    /\ BackendServes(env)
    /\ uuids < MaxSessions
    /\ \E user_name \in NameInputs \ {<<>>}, phone_number \in PhoneInputs \ {<<>>} :
         /\ SESSIONS' = Stored(SESSIONS, uuids + 1,
                               [name |-> user_name, phone |-> phone_number])
         /\ registered' = Recorded(registered, uuids + 1, "backend",
                                   user_name, phone_number)
         /\ frontend' =
               [frontend EXCEPT
                   !.session_id = uuids + 1,
                   !.chat_history =
                       Append(@, [role |-> "assistant", kind |-> "greeting",
                                  content |-> user_name])]
    /\ uuids' = uuids + 1
    /\ UNCHANGED <<pvars, env, tvars, session_state, turn, turns, tts, plays>>

\* frontend.py: the registration form, the backend not answering
FrontendRegisterRefused ==
    /\ frontend.session_id = 0
    /\ ~BackendServes(env)
    /\ frontend.errors < MaxTurns
    /\ frontend' = [frontend EXCEPT !.errors = @ + 1]
    /\ UNCHANGED <<pvars, env, tvars, svars, tts, plays>>

\* frontend.py: the chat input of a registered session
FrontendChat ==
    /\ frontend.session_id # 0
    /\ BackendServes(env)
    /\ turns < MaxTurns
    /\ \E user_input \in UserInputs, input_mode \in InputModes,
          response_mode \in InputModes, stream \in SampleStreams,
          answers \in TTSAnswerRuns :
         LET payload == Query(user_input, frontend.session_id, input_mode, response_mode)
             data == Answer(SESSIONS, payload, stream)
             voice == response_mode = "voice"
             asked == [role |-> "user", kind |-> "text", content |-> user_input]
             reply == [role |-> "assistant",
                       kind |-> IF voice THEN "(Voice Response)" ELSE "text",
                       content |-> data.response]
             notice == [role |-> "system", kind |-> "Tool Called",
                        content |-> <<data.tool_called>>]
         IN /\ turn' = data
            /\ frontend' =
                  [frontend EXCEPT
                      !.chat_history =
                          @ \o <<asked, reply>> \o
                          (IF Truthy(data.tool_called) THEN <<notice>> ELSE <<>>)]
            /\ IF voice
               THEN /\ plays < MaxPlays
                    /\ tts' = handle_tts_generation_and_play(data.response, answers)
                    /\ plays' = plays + 1
               ELSE UNCHANGED <<tts, plays>>
    /\ turns' = turns + 1
    /\ UNCHANGED <<pvars, env, tvars, SESSIONS, uuids, session_state, registered>>

\* The frontend before anything was submitted.
FrontendIdle ==
    /\ frontend = [session_id |-> 0, chat_history |-> <<>>, errors |-> 0]
    /\ tts = TTSIdle
    /\ plays = 0

----------------------------------------------------------------------------
(* Specifications *)

InitParse ==
    /\ consumed = <<>>
    /\ tool_called_name = NoTool
    /\ final_response = <<>>
    /\ pstate = "running"
    /\ ret = [tool |-> NoTool, text |-> <<>>]

InitParseOnly == InitParse /\ env = NoEnv /\ ToolsIdle /\ ShimIdle /\ FrontendIdle

NextParse == StreamYield \/ StreamEnd

\* parse_response over the updates the agent graph yields.
SpecParse == InitParseOnly /\ [][NextParse]_vars

NextParseAny == StreamYieldAny \/ StreamEnd

\* parse_response over any stream, malformed events included.
SpecParseAny == InitParseOnly /\ [][NextParseAny]_vars

InitTools == InitParse /\ env \in Envs /\ ToolsIdle /\ ShimIdle /\ FrontendIdle

NextTools == AppCallEmergency \/ BackendCallEmergency \/ AppAsk \/ BackendAsk

\* The two tools, in both implementations, under every configuration.
SpecTools == InitTools /\ [][NextTools]_vars

InitTurn ==
    /\ InitParse
    /\ env \in { [NoEnv EXCEPT !.GROQ_API_KEY = k] : k \in BOOLEAN }
    /\ ToolsIdle
    /\ ShimIdle
    /\ FrontendIdle

NextTurn ==
    AppStartSession \/ AppChatTurn \/ start_session \/ ask_question \/ BackendUnreachable

\* Both entry points, with and without the Groq key.
SpecTurn == InitTurn /\ [][NextTurn]_vars

NextFrontend ==
    FrontendRegister \/ FrontendRegisterRefused \/ FrontendChat \/ start_session

\* frontend.py in front of the backend, with and without the Groq key.
SpecFrontend == InitTurn /\ [][NextFrontend]_vars

NextTTS == TTSStart \/ TTSAttempt

\* handle_tts_generation_and_play, pass by pass, under every answer of the provider.
SpecTTS == InitParseOnly /\ [][NextTTS]_vars

----------------------------------------------------------------------------
(* What the claims speak of, defined on the stream itself *)

\* t occurs in s as a contiguous piece.
Contains(s, t) ==
    \E i \in 0..(Len(s) - Len(t)) : SubSeq(s, i + 1, i + Len(t)) = t

RECURSIVE Flatten(_)
Flatten(lists) ==
    IF lists = <<>> THEN <<>> ELSE Head(lists) \o Flatten(Tail(lists))

\* The message objects parse_response is to scan in one event: the list under
\* '__root__' or else the one under 'agent'.
Scanned(e) ==
    IF e.shape # "dict" THEN <<>>
    ELSE IF e.root.t = "messages" THEN e.root.items
    ELSE IF e.agent.t = "messages" THEN e.agent.items
    ELSE <<>>

IsMessageObject(m) == m.cls # "dict"

\* Every message object of one event, under whatever key it lies.
Held(e) == e.root.items \o e.agent.items \o e.tools.items

ScannedAll(es) ==
    SelectSeq(Flatten([i \in 1..Len(es) |-> Scanned(es[i])]), IsMessageObject)

HeldAll(es) ==
    SelectSeq(Flatten([i \in 1..Len(es) |-> Held(es[i])]), IsMessageObject)

\* The string contents of the messages, one after the other.
RECURSIVE Joined(_)
Joined(ms) ==
    IF ms = <<>> THEN <<>>
    ELSE (IF Head(ms).content.isStr THEN Head(ms).content.s ELSE <<>>)
         \o Joined(Tail(ms))

\* A message that requests a tool by name.
IsNamedRequest(m) ==
    /\ m.cls = "AIMessage"
    /\ m.tool_calls # <<>>
    /\ m.tool_calls[1].name # ""

\* A tool's result carrying text.
IsToolResult(m) == m.cls = "ToolMessage" /\ m.content.isStr

NamedRequests(es) == SelectSeq(ScannedAll(es), IsNamedRequest)

Returned == pstate = "returned"

----------------------------------------------------------------------------
(* C1 *)

\* C1 as stated: with two or more named tool requests in the stream, the
\* returned tool name is that of the first request; later ones never overwrite.
C1_FirstToolWins ==
    (Returned /\ Len(NamedRequests(consumed)) >= 2)
        => ret.tool = NamedRequests(consumed)[1].tool_calls[1].name

\* C1 amended: with two or more named tool requests in the stream, the returned
\* tool name is that of the last named request: each later one overwrites.
C1_LastToolWins ==
    (Returned /\ Len(NamedRequests(consumed)) >= 2)
        => LET reqs == NamedRequests(consumed)
           IN ret.tool = reqs[Len(reqs)].tool_calls[1].name

\* The specialist is requested first and the emergency call after it.
C1_Witness ==
    /\ Returned
    /\ Len(NamedRequests(consumed)) = 2
    /\ NamedRequests(consumed)[1].tool_calls[1].name = ASK
    /\ NamedRequests(consumed)[2].tool_calls[1].name = CALL
    /\ ret.tool = CALL

----------------------------------------------------------------------------
(* C2 *)

\* C2 as stated: the returned text is the concatenation, in arrival order, of
\* the string content of every message of every event, stripped as a whole.
C2_EveryMessageOfEveryEvent ==
    Returned => ret.text = Strip(Joined(HeldAll(consumed)))

\* C2 amended: the returned text is the concatenation, in arrival order, of the
\* string content of every message parse_response scans (the list under
\* '__root__', else under 'agent', of each event), with no separator, and
\* stripped only as a whole.
C2_TextIsJoinedAndStripped ==
    Returned => ret.text = Strip(Joined(ScannedAll(consumed)))

\* Two events bring text; the whitespace between the fragments stays and the
\* whitespace around the whole goes.
C2_Witness ==
    /\ Returned
    /\ Len(consumed) >= 2
    /\ \E i, j \in 1..Len(consumed) :
         i < j /\ Joined(Scanned(consumed[i])) # <<>> /\ Joined(Scanned(consumed[j])) # <<>>
    /\ ret.text = <<"b", " ", " ", "a">>

----------------------------------------------------------------------------
(* C3 *)

\* Places i < j of the events taken: the assistant requests a tool by name in
\* event i and event j is a tool's result.
RequestThenResult(i, j) ==
    /\ i < j
    /\ \E k \in 1..Len(Scanned(consumed[i])) : IsNamedRequest(Scanned(consumed[i])[k])
    /\ \E k \in 1..Len(Held(consumed[j])) : IsToolResult(Held(consumed[j])[k])

\* C3 as stated: a tool request by name followed by a tool-result event with
\* text T gives that tool name and a final text containing T (here already
\* granted: T without the whitespace around it).
C3_ToolResultContributes ==
    Returned =>
        \A i, j \in 1..Len(consumed) :
            RequestThenResult(i, j) =>
                \A k \in 1..Len(Held(consumed[j])) :
                    IsToolResult(Held(consumed[j])[k]) =>
                        Contains(ret.text, Strip(Held(consumed[j])[k].content.s))

\* C3 amended: a tool result that lies in a list parse_response scans adds its
\* text like any other message: the final text contains it (without the
\* whitespace around it), and the returned name is the requested one unless a
\* later named request replaced it.
C3_ScannedToolResultContributes ==
    Returned =>
        LET ms == ScannedAll(consumed)
        IN \A i, j \in 1..Len(ms) :
             (i < j /\ IsNamedRequest(ms[i]) /\ IsToolResult(ms[j])) =>
                /\ Contains(ret.text, Strip(ms[j].content.s))
                /\ (\A k \in (i + 1)..Len(ms) : ~IsNamedRequest(ms[k]))
                       => ret.tool = ms[i].tool_calls[1].name

\* The emergency call is requested and its result comes in a scanned list.
C3_Witness ==
    /\ Returned
    /\ LET ms == ScannedAll(consumed)
       IN \E i, j \in 1..Len(ms) :
            /\ i < j
            /\ IsNamedRequest(ms[i]) /\ ms[i].tool_calls[1].name = CALL
            /\ IsToolResult(ms[j])
    /\ ret.tool = CALL
    /\ ret.text = <<"b">>

----------------------------------------------------------------------------
(* C9 *)

\* An event of unexpected shape, or one whose messages are no list of messages.
IsMalformed(e) ==
    \/ e.shape # "dict"
    \/ e.root.t = "nondict"
    \/ \E v \in {e.root, e.agent, e.tools} :
         v.t = "messages" /\ (~v.iterable \/ \E k \in 1..Len(v.items) : ~IsMessageObject(v.items[k]))

WellFormed(e) == ~IsMalformed(e)

\* C9: a malformed event is skipped without raising, and the result is that of
\* the stream without it.
C9_MalformedSkipped ==
    /\ pstate # "raised"
    /\ Returned =>
         LET rest == parse_response(SelectSeq(consumed, WellFormed))
         IN ret = [tool |-> rest.tool, text |-> rest.text]

----------------------------------------------------------------------------
(* C10 *)

\* C10: a stream without a named tool request gives the marker "None" and the
\* accumulated text; a stream without events gives ("None", "").
C10_NoToolNoName ==
    /\ (Returned /\ NamedRequests(consumed) = <<>>) =>
          /\ ret.tool = "None"
          /\ ret.text = Strip(Joined(ScannedAll(consumed)))
    /\ (Returned /\ consumed = <<>>) => ret = [tool |-> "None", text |-> <<>>]

\* The assistant answers directly, in two fragments.
C10_Witness ==
    /\ Returned
    /\ NamedRequests(consumed) = <<>>
    /\ Len(ScannedAll(consumed)) >= 2
    /\ ret.tool = "None"
    /\ ret.text = <<"a", " ", " ", "a">>

----------------------------------------------------------------------------
(* C4 *)

\* The last invocation was of call_emergency_services.
CalledEmergency == last.tool = CALL

\* The telephony credentials or the from-number are missing.
TelephonyMissing ==
    \/ env.TWILIO_ACCOUNT_SID = ""
    \/ env.TWILIO_AUTH_TOKEN = ""
    \/ env.TWILIO_FROM_NUMBER = ""

\* C4: without the telephony credentials or the from-number,
\* call_emergency_services does not raise, places no call and returns text
\* holding "local emergency number", in app.py and in the backend alike.
C4_DialLocalNumberWhenNotConfigured ==
    (CalledEmergency /\ TelephonyMissing) =>
        /\ ~last.raised
        /\ last.issued = <<>>
        /\ last.result # <<>>
        /\ Contains(last.result, <<"local", "emergency", "number">>)

----------------------------------------------------------------------------
(* C5 *)

\* The call-creation request of the last invocation went out and failed.
RequestFailed == CalledEmergency /\ last.issued # <<>> /\ ~last.answer.ok

\* The instruction of the configuration-missing message.
DialInstruction ==
    << "Please", "dial", "your", "local", "emergency", "number", "immediately." >>

\* C5 as stated: on provider failure the tool does not raise and returns the
\* caught error with the same direct-dial instruction as the
\* configuration-missing message.
C5_SameInstructionOnFailure ==
    RequestFailed =>
        /\ ~last.raised
        /\ Contains(last.result, <<last.answer.text>>)
        /\ Contains(last.result, DialInstruction)

\* C5 amended: on provider failure the tool does not raise and returns the
\* caught error with an instruction to contact local emergency services at
\* once, in words of its own: not those of the configuration-missing message.
C5_ErrorAndContactInstructionOnFailure ==
    RequestFailed =>
        /\ ~last.raised
        /\ Contains(last.result, <<last.answer.text>>)
        /\ Contains(last.result, <<"Please", "contact">>)
        /\ Contains(last.result, <<"local", "emergency">>)
        /\ ~Contains(last.result, DialInstruction)

\* app.py's tool, fully configured, and the provider times out.
C5_Witness ==
    /\ RequestFailed
    /\ last.impl = "app"
    /\ last.answer.text = "timed out"
    /\ Contains(last.result, <<"(error:", "timed out", ").">>)

----------------------------------------------------------------------------
(* C6 *)

\* The precheck the tool is to make: credentials and from-number present, and
\* the twilio package there.
PrecheckPasses == ~TelephonyMissing /\ env.TwilioClient

\* C6: past the precheck exactly one call-creation request goes out, to the
\* phone argument unchanged and with the fixed callback URL, whether it
\* succeeds or fails; short of the precheck none goes out.
C6_OneRequestPastPrecheck ==
    CalledEmergency =>
        IF PrecheckPasses
        THEN /\ Len(last.issued) = 1
             /\ last.issued[1].to = last.arg
             /\ last.issued[1].url = "http://demo.twilio.com/docs/voice.xml"
        ELSE last.issued = <<>>

----------------------------------------------------------------------------
(* C7 *)

\* The last invocation was of ask_mental_health_specialist, the secondary
\* model was there to be called, and the call failed.
SpecialistFailed ==
    /\ last.tool = ASK
    /\ last.impl = "app" => env.GROQ_API_KEY
    /\ ~last.answer.ok

\* C7: when the secondary model call fails, ask_mental_health_specialist does
\* not raise, returns the fixed fallback word for word, and has called the
\* provider exactly once.
C7_FallbackOnFailure ==
    SpecialistFailed =>
        /\ ~last.raised
        /\ last.asked = 1
        /\ last.result =
             << "I'm", "having", "technical", "difficulties", "right", "now,",
                "but", "I", "want", "you", "to", "know", "your", "feelings",
                "matter.", "Please", "try", "again", "later." >>

\* Both implementations have failed once and the provider was called twice.
C7_Witness ==
    /\ SpecialistFailed
    /\ last.impl = "backend"
    /\ invocations = 2
    /\ llm_calls = 2
    /\ last.result = Fallback

----------------------------------------------------------------------------
(* C8 *)

\* C8: when the primary model client could not be constructed, a turn at
\* either entry point surfaces a configuration error and neither streams the
\* agent nor calls parse_response.
C8_ShortCircuitWithoutModel ==
    (turn.entry # "" /\ ~env.GROQ_API_KEY) =>
        /\ turn.error = "Server not configured"
        /\ ~turn.streamed
        /\ ~turn.parsed

----------------------------------------------------------------------------
(* C11 *)

\* The entry the backend's table holds for a registration is the one given.
AsGiven(id) ==
    /\ id \in DOMAIN SESSIONS
    /\ SESSIONS[id] = [name |-> registered[id].name, phone |-> registered[id].phone]

BackendRegistrations == { id \in DOMAIN registered : registered[id].entry = "backend" }

\* C11: after any sequence of start_session and ask_question, every entry that
\* was created is still in SESSIONS with the name and phone its registration
\* was given; a step never changes or removes an entry, a turn never writes
\* the table, and a registration adds exactly one entry, under a new identifier.
C11_EntriesWrittenOnce ==
    /\ [](\A id \in BackendRegistrations : AsGiven(id))
    /\ [][ /\ \A id \in DOMAIN SESSIONS :
                id \in DOMAIN SESSIONS' /\ SESSIONS'[id] = SESSIONS[id]
           /\ turns' # turns => SESSIONS' = SESSIONS
           /\ registered' # registered /\ SESSIONS' # SESSIONS =>
                Cardinality(DOMAIN SESSIONS' \ DOMAIN SESSIONS) = 1 ]_vars

\* Two sessions with different entries, and a turn of the first after both.
C11_Witness ==
    /\ BackendRegistrations = {1, 2}
    /\ SESSIONS[1] # SESSIONS[2]
    /\ AsGiven(1) /\ AsGiven(2)
    /\ turns = 2
    /\ turn.entry = "backend" /\ turn.session_id = 1

----------------------------------------------------------------------------
(* C12 *)

\* The last turn was handled by ask_question, for a session_id the table
\* does not hold.
AskedUnknown ==
    /\ BackendServes(env)
    /\ turn.entry = "backend"
    /\ turn.session_id \notin DOMAIN SESSIONS

\* C12: ask_question with a session_id that was never registered does not
\* fail: the name resolves to "there" and the phone to "", the graph is
\* streamed and parsed, and the response carries text, tool and mode as ever.
C12_UnknownSessionServed ==
    AskedUnknown =>
        /\ turn.error = ""
        /\ turn.context = session_context(There, <<>>)
        /\ turn.streamed /\ turn.parsed
        /\ \E stream \in SampleStreams :
              /\ turn.response = parse_response(stream).text
              /\ turn.tool_called = parse_response(stream).tool
        /\ turn.response_mode \in InputModes

\* A session is registered, and a turn names another that is not.
C12_Witness ==
    /\ AskedUnknown
    /\ DOMAIN SESSIONS = {1}
    /\ turn.session_id = 2
    /\ turn.context.user_name = There
    /\ turn.response = <<"a">>

----------------------------------------------------------------------------
(* C13 *)

\* The last turn built its context for a session registered at its own
\* entry point.
TurnOfRegistered ==
    /\ turn.entry \in {"app", "backend"}
    /\ turn.error # "connection refused"
    /\ turn.session_id \in DOMAIN registered
    /\ registered[turn.session_id].entry = turn.entry

\* C13: the context of a turn embeds, as the number to pass to
\* call_emergency_services, exactly the phone string the session's
\* registration was given, in the backend and in app.py alike.
C13_PhoneVerbatim ==
    TurnOfRegistered =>
        turn.context.pass_phone = registered[turn.session_id].phone

----------------------------------------------------------------------------
(* C15 *)

\* The last turn was answered by ask_question.
Answered == BackendServes(env) /\ turn.entry = "backend"

\* C15: ask_question returns the explicit response_mode when the query has
\* one and the input_mode otherwise, for every input_mode and response_mode,
\* whatever the session and whatever the turn came to.
C15_ExplicitModeElseInputMode ==
    Answered =>
        /\ turn.query.response_mode # "" =>
              turn.response_mode = turn.query.response_mode
        /\ turn.query.response_mode = "" =>
              turn.response_mode = turn.query.input_mode
        /\ turn.response_mode \in InputModes

\* A voice turn without an explicit mode, of an unknown session, a tool called.
C15_Witness ==
    /\ Answered
    /\ turn.query.input_mode = "voice"
    /\ turn.query.response_mode = ""
    /\ turn.response_mode = "voice"
    /\ turn.session_id \notin DOMAIN SESSIONS
    /\ turn.tool_called = CALL

\* The explicit mode overrides the input mode, in a registered session.
C15_WitnessOverride ==
    /\ Answered
    /\ turn.query.input_mode = "voice"
    /\ turn.query.response_mode = "chat"
    /\ turn.response_mode = "chat"
    /\ turn.session_id \in DOMAIN SESSIONS

----------------------------------------------------------------------------
(* C14 *)

\* s is the front of t.
IsPrefix(s, t) == Len(s) <= Len(t) /\ \A k \in 1..Len(s) : s[k] = t[k]

TTSReturned == tts.state = "returned"

\* The last request ended in a requests exception.
LastFailedInTransit ==
    tts.answers # <<>> /\ tts.answers[Len(tts.answers)] \in RequestExceptions

\* The call returned on a failed request: the retries are used up.
Exhausted == TTSReturned /\ LastFailedInTransit

\* A request that succeeds or fails otherwise is the last one; only
\* requests failed in transit are followed by another.
EndsAtOnce ==
    /\ \A k \in 1..(Len(tts.answers) - 1) : tts.answers[k] \in RequestExceptions
    /\ (tts.answers # <<>> /\ ~LastFailedInTransit) => TTSReturned
    /\ (TTSReturned /\ tts.answers[Len(tts.answers)] = "audio") =>
          /\ tts.result
          /\ Len(tts.slept) = tts.requests - 1
          /\ tts.shown[Len(tts.shown)] = "success"

\* An error is on the screen only when the call has returned failure.
ErrorOnlyAtReturn ==
    (\E k \in 1..Len(tts.shown) : tts.shown[k] = "error") =>
        /\ TTSReturned /\ ~tts.result
        /\ tts.shown[Len(tts.shown)] = "error"

\* C14 as stated: up to 3 retries, with delays of 1s, 2s and 4s between the
\* attempts; the error is surfaced, and failure returned, only after them; a
\* successful attempt ends the loop at once.
C14_BackoffOneTwoFour ==
    /\ IsPrefix(tts.slept, <<1, 2, 4>>)
    /\ Exhausted => (tts.slept = <<1, 2, 4>> /\ ~tts.result)
    /\ EndsAtOnce
    /\ ErrorOnlyAtReturn

\* C14 amended: at most 3 requests in all, with delays of 1s after the first
\* and 2s after the second failed one and never one of 4s; the third failure
\* surfaces the error and returns failure without a sleep; a successful
\* attempt ends the loop at once.
C14_ThreeAttemptsTwoDelays ==
    /\ tts.requests <= 3
    /\ tts.requests = Len(tts.answers)
    /\ IsPrefix(tts.slept, <<1, 2>>)
    /\ tts.state = "running" => Len(tts.slept) = tts.requests
    /\ Exhausted =>
          /\ tts.requests = 3
          /\ tts.slept = <<1, 2>>
          /\ ~tts.result
          /\ tts.shown = <<"info", "warning", "warning", "error">>
    /\ EndsAtOnce
    /\ ErrorOnlyAtReturn

\* Three requests failed in transit: two sleeps, then the error.
C14_Witness ==
    /\ TTSReturned
    /\ tts.answers = <<"timeout", "http_error", "timeout">>
    /\ tts.slept = <<1, 2>>
    /\ ~tts.result

----------------------------------------------------------------------------
(* C16 *)

IsNotice(entry) == entry.kind = "Tool Called"

\* C16: a "Tool Called" notice enters the chat history only for a turn in
\* which a tool was called: no notice carries the no-tool marker, and after a
\* turn whose result reports no tool the history ends with the reply.
C16_NoticeOnlyWhenToolCalled ==
    /\ \A k \in 1..Len(frontend.chat_history) :
          IsNotice(frontend.chat_history[k]) =>
              frontend.chat_history[k].content # <<NoTool>>
    /\ (turns > 0 /\ turn.tool_called = NoTool) =>
          ~IsNotice(frontend.chat_history[Len(frontend.chat_history)])

============================================================================
